---- MODULE Spec2Model ----
(***************************************************************************)
(* Emission calculation, report cache and projection engine of the         *)
(* emissions app (emissions/models.py, emissions/signals.py,               *)
(* emissions/views.py).                                                    *)
(*                                                                         *)
(* Decimal quantities are modelled exactly.  Source fields take integral   *)
(* Decimal values; quotients are kept as reduced fractions <<num, den>>    *)
(* (Python's 28-digit Decimal context is finer than any value compared     *)
(* here, so the rounding of the last digit is not represented).            *)
(***************************************************************************)
EXTENDS Integers, Sequences, FiniteSets, TLC

VARIABLES sources, mods, strategies, cache, handles, now, out

vars == <<sources, mods, strategies, cache, handles, now, out>>

(***************************************************************************)
(* Bounds of the model.                                                    *)
(***************************************************************************)
BaseYear == 2020
NumYears == 3
MaxLifetime == 2
MaxEF == 2
MaxValue == 2
MaxQuantity == 2
MaxAcqOffset == 1

Years == BaseYear .. (BaseYear + NumYears - 1)
Lifetimes == 1 .. MaxLifetime
EmissionFactors == 1 .. MaxEF
Values == 1 .. MaxValue
Quantities == 1 .. MaxQuantity
\* Acquisition years of the sources held by the report-level specifications.
AcqYears == BaseYear .. (BaseYear + MaxAcqOffset)
\* Readings of the clock: from two years before the first acquisition on.
ClockYears == (BaseYear - 2) .. (BaseYear + NumYears - 1)
Reports == {1, 2}
SourceIds == {1, 2}
ModIds == {1, 2}
StrategyIds == {1, 2}
HandleIds == {1}

(***************************************************************************)
(* None: the null of a nullable column (year, end_year, target_value,      *)
(* total_emissions_cache).  Python tests "if self.year": None and 0 are    *)
(* both false.                                                             *)
(***************************************************************************)
None == -1000000

Truthy(x) == x # None /\ x # 0

NoSource == [report |-> 0]
NoHandle == [report |-> 0]
NoMod == [source |-> 0]
\* A Decimal column holding NULL
NoDec == <<>>
NoOut == [op |-> "none"]

Max2(a, b) == IF a >= b THEN a ELSE b
Min2(a, b) == IF a <= b THEN a ELSE b

(***************************************************************************)
(* Exact Decimal arithmetic on fractions.                                  *)
(***************************************************************************)
Abs(x) == IF x < 0 THEN -x ELSE x

RECURSIVE GCD(_, _)
GCD(a, b) == IF b = 0 THEN a ELSE GCD(b, a % b)

Frac(n, d) ==
    LET g == GCD(Abs(n), Abs(d))
        s == IF d < 0 THEN -1 ELSE 1
    IN  IF n = 0 THEN <<0, 1>> ELSE <<(s * n) \div g, (s * d) \div g>>

Dec(n) == <<n, 1>>

\* The outcome of a Decimal operation that raised (division by zero); an
\* operation on it raises again.
Raised == <<0, 0>>
IsRaised(a) == a[2] = 0

DecMul(a, b) ==
    IF IsRaised(a) \/ IsRaised(b) THEN Raised
    ELSE Frac(a[1] * b[1], a[2] * b[2])
DecDiv(a, b) ==
    IF IsRaised(a) \/ IsRaised(b) \/ b[1] = 0 THEN Raised
    ELSE Frac(a[1] * b[2], a[2] * b[1])
DecAdd(a, b) ==
    IF IsRaised(a) \/ IsRaised(b) THEN Raised
    ELSE Frac(a[1] * b[2] + b[1] * a[2], a[2] * b[2])
DecSub(a, b) ==
    IF IsRaised(a) \/ IsRaised(b) THEN Raised
    ELSE Frac(a[1] * b[2] - b[1] * a[2], a[2] * b[2])

(***************************************************************************)
(* Source (models.py).                                                     *)
(***************************************************************************)
\* The years a pinned source may carry: none, or one within its lifetime.
PinYears(acq, life) == {None} \cup (acq .. (acq + life - 1))

SourceRecords(reps, efs, vals, qtys, acqs, lifes) ==
    UNION { UNION { [report : reps, emission_factor : efs, value : vals,
                     quantity : qtys, lifetime : {l}, acquisition_year : {a},
                     year : PinYears(a, l)] : l \in lifes } : a \in acqs }

\* Source.annual_emission
annual_emission(s) == s.emission_factor * s.value * s.quantity

\* A calculator that forgets the pinned year.
calculate_emission_for_year_unpinned(s, year) ==
    IF year < s.acquisition_year
       \/ year >= s.acquisition_year + s.lifetime THEN 0
    ELSE annual_emission(s)

\* Source.calculate_emission_for_year
calculate_emission_for_year(s, year) ==
    IF Truthy(s.year) /\ s.year # year THEN 0
    ELSE IF year < s.acquisition_year
            \/ year >= s.acquisition_year + s.lifetime THEN 0
    ELSE annual_emission(s)

\* A lifetime total that does not clamp the years active at 0.
total_emission_unclamped(s, current_year) ==
    s.emission_factor * s.value * s.quantity
        * Min2(current_year - s.acquisition_year + 1, s.lifetime)

\* Source.total_emission, with timezone.now().year = current_year
total_emission(s, current_year) ==
    LET years_active ==
            Max2(0, Min2(current_year - s.acquisition_year + 1, s.lifetime))
    IN  s.emission_factor * s.value * s.quantity * years_active

(***************************************************************************)
(* Report (models.py): aggregates over the rows of the sources table.      *)
(***************************************************************************)
\* report.sources.all(): the ids of the stored sources of report r
SourcesOf(tbl, r) ==
    {i \in DOMAIN tbl : tbl[i] # NoSource /\ tbl[i].report = r}

\* Sum(...): the sum of f[i] over the rows i in ids
RECURSIVE Sum(_, _)
Sum(f, ids) ==
    IF ids = {} THEN 0
    ELSE LET i == CHOOSE j \in ids : TRUE
         IN  f[i] + Sum(f, ids \ {i})

\* Least(a, b) of django.db.models.functions
Least(a, b) == IF a <= b THEN a ELSE b

\* The term summed by total_emissions() when year is None
LifetimeTerm(s, current_year) ==
    s.emission_factor * s.value * s.quantity
        * Least(s.lifetime, current_year - s.acquisition_year + 1)

\* The filter of total_emissions(year)
InYearFilter(s, year) ==
    /\ s.acquisition_year <= year
    /\ s.acquisition_year > year - s.lifetime

\* Report.total_emissions(year=None); Sum over no rows is NULL, "or 0"
total_emissions(tbl, r, year, current_year) ==
    IF year = None
    THEN LET rows == SourcesOf(tbl, r)
         IN  Sum([i \in rows |-> LifetimeTerm(tbl[i], current_year)], rows)
    ELSE LET rows == {i \in SourcesOf(tbl, r) : InYearFilter(tbl[i], year)}
         IN  Sum([i \in rows |->
                    tbl[i].emission_factor * tbl[i].value * tbl[i].quantity],
                 rows)

\* A comparison that divides without looking at emissions1.
compare_emissions_unguarded(tbl, r, year1, year2, current_year) ==
    LET emissions1 == total_emissions(tbl, r, year1, current_year)
        emissions2 == total_emissions(tbl, r, year2, current_year)
        difference == emissions2 - emissions1
    IN  [year1 |-> year1, year2 |-> year2,
         emissions1 |-> emissions1, emissions2 |-> emissions2,
         difference |-> difference,
         percentage_change |->
             DecMul(DecDiv(Dec(difference), Dec(emissions1)), Dec(100))]

\* Report.compare_emissions
compare_emissions(tbl, r, year1, year2, current_year) ==
    LET emissions1 == total_emissions(tbl, r, year1, current_year)
        emissions2 == total_emissions(tbl, r, year2, current_year)
        difference == emissions2 - emissions1
        percentage_change ==
            IF emissions1 # 0
            THEN DecMul(DecDiv(Dec(difference), Dec(emissions1)), Dec(100))
            ELSE Dec(0)
    IN  [year1 |-> year1, year2 |-> year2,
         emissions1 |-> emissions1, emissions2 |-> emissions2,
         difference |-> difference, percentage_change |-> percentage_change]

(***************************************************************************)
(* Stored state that the calculator specifications leave alone.            *)
(***************************************************************************)
NoCache == [r \in Reports |-> None]
NoHandles == [h \in HandleIds |-> NoHandle]
NoMods == [m \in ModIds |-> NoMod]
\* report.reduction_strategies of every report: no strategy attached
NoStrategies == [r \in Reports |-> {}]

(***************************************************************************)
(* SpecSource: one stored source, the per-source calculator applied to it. *)
(***************************************************************************)
AllSources ==
    SourceRecords(Reports, EmissionFactors, Values, Quantities, Years, Lifetimes)

InitSource ==
    /\ sources \in {[i \in SourceIds |-> IF i = 1 THEN s ELSE NoSource] :
                       s \in AllSources}
    /\ now \in Years
    /\ mods = NoMods
    /\ strategies = NoStrategies
    /\ cache = NoCache
    /\ handles = NoHandles
    /\ out = NoOut

EmissionForYear(i, year) ==
    /\ sources[i] # NoSource
    /\ out' = [op |-> "emission_for_year", source |-> i, year |-> year,
               result |-> calculate_emission_for_year(sources[i], year)]
    /\ UNCHANGED <<sources, mods, strategies, cache, handles, now>>

TotalEmission(i) ==
    /\ sources[i] # NoSource
    /\ out' = [op |-> "total_emission", source |-> i, year |-> now,
               result |-> total_emission(sources[i], now)]
    /\ UNCHANGED <<sources, mods, strategies, cache, handles, now>>

NextSource ==
    \/ \E i \in SourceIds, year \in Years : EmissionForYear(i, year)
    \/ \E i \in SourceIds : TotalEmission(i)

SpecSource == InitSource /\ [][NextSource]_vars

(***************************************************************************)
(* SpecReport: two stored sources, the per-year report aggregates.         *)
(***************************************************************************)
ReportSources ==
    SourceRecords(Reports, {MaxEF}, {MaxValue}, {MaxQuantity}, AcqYears,
                  Lifetimes) \cup {NoSource}

InitReport ==
    /\ sources \in [SourceIds -> ReportSources]
    /\ now = BaseYear
    /\ mods = NoMods
    /\ strategies = NoStrategies
    /\ cache = NoCache
    /\ handles = NoHandles
    /\ out = NoOut

TotalEmissionsForYear(r, year) ==
    /\ out' = [op |-> "total_emissions", report |-> r, year |-> year,
               result |-> total_emissions(sources, r, year, now)]
    /\ UNCHANGED <<sources, mods, strategies, cache, handles, now>>

CompareEmissions(r, year1, year2) ==
    /\ LET c == compare_emissions(sources, r, year1, year2, now)
       IN  out' = [op |-> "compare_emissions", report |-> r,
                   year1 |-> year1, year2 |-> year2,
                   status |-> IF IsRaised(c.percentage_change)
                              THEN "ZeroDivisionError" ELSE "ok",
                   result |-> c]
    /\ UNCHANGED <<sources, mods, strategies, cache, handles, now>>

NextReport ==
    \/ \E r \in Reports, year \in Years : TotalEmissionsForYear(r, year)
    \/ \E r \in Reports, year1, year2 \in Years :
            CompareEmissions(r, year1, year2)

SpecReport == InitReport /\ [][NextReport]_vars

(***************************************************************************)
(* SpecReportTotal: two stored sources, a clock reading, and the lifetime  *)
(* aggregate total_emissions() taken with no year.                         *)
(***************************************************************************)
InitReportTotal ==
    /\ sources \in [SourceIds -> ReportSources]
    /\ now \in ClockYears
    /\ mods = NoMods
    /\ strategies = NoStrategies
    /\ cache = NoCache
    /\ handles = NoHandles
    /\ out = NoOut

TotalEmissionsNoYear(r) ==
    /\ out' = [op |-> "total_emissions", report |-> r, year |-> None,
               result |-> total_emissions(sources, r, None, now)]
    /\ UNCHANGED <<sources, mods, strategies, cache, handles, now>>

NextReportTotal == \E r \in Reports : TotalEmissionsNoYear(r)

SpecReportTotal == InitReportTotal /\ [][NextReportTotal]_vars

(***************************************************************************)
(* SpecCache: the sources table under Source.save and Source.delete, the   *)
(* post_save / post_delete receivers (signals.py), the stored              *)
(* total_emissions_cache of each report, and the Report objects that       *)
(* callers hold in memory.                                                 *)
(***************************************************************************)
\* A validation that does not look at the quantity.
clean_without_quantity(s) ==
    /\ ~(s.value <= 0)
    /\ ~(Truthy(s.year) /\ (s.year < s.acquisition_year
                            \/ s.year >= s.acquisition_year + s.lifetime))

\* Source.clean, as run by full_clean() in Source.save
clean(s) ==
    /\ ~(s.value <= 0)
    /\ ~(s.quantity <= 0)
    /\ ~(Truthy(s.year) /\ (s.year < s.acquisition_year
                            \/ s.year >= s.acquisition_year + s.lifetime))

\* The rows a caller may try to save: valid ones, and ones clean() rejects
\* (a value of 0, a pinned year before the acquisition).
SaveInputs ==
    [report : Reports, emission_factor : {MaxEF}, value : {0, MaxValue},
     quantity : {MaxQuantity}, lifetime : {MaxLifetime},
     acquisition_year : AcqYears, year : {None, BaseYear - 1}]

\* The Report object a receiver reaches as instance.report: one a caller
\* holds (h), or one fetched for the occasion (0).
ReportObjects(r) == {0} \cup {h \in HandleIds : handles[h].report = r}

\* Report.update_total_emissions on the object `via` of report r, the sources
\* table being tbl: the attribute is set and the row saved.
update_total_emissions(tbl, r, via) ==
    LET total == total_emissions(tbl, r, None, now)
    IN  /\ cache' = [cache EXCEPT ![r] = total]
        /\ handles' = IF via = 0 THEN handles
                      ELSE [handles EXCEPT ![via].total_emissions_cache = total]

InitCache ==
    /\ sources = [i \in SourceIds |-> NoSource]
    /\ now \in ClockYears
    /\ mods = NoMods
    /\ strategies = NoStrategies
    /\ cache = NoCache
    /\ handles = NoHandles
    /\ out = NoOut

\* Source.save (create or update) followed by update_report_emissions
SourceSave(i, s, via) ==
    /\ via \in ReportObjects(s.report)
    /\ IF clean(s)
       THEN /\ sources' = [sources EXCEPT ![i] = s]
            /\ update_total_emissions([sources EXCEPT ![i] = s], s.report, via)
            /\ out' = [op |-> "source_save", status |-> "ok", source |-> i,
                       before |-> sources[i].report, after |-> s.report]
       ELSE /\ out' = [op |-> "source_save", status |-> "ValidationError",
                       source |-> i, before |-> sources[i].report,
                       after |-> sources[i].report]
            /\ UNCHANGED <<sources, cache, handles>>
    /\ UNCHANGED <<mods, strategies, now>>

\* Source.delete followed by update_report_emissions_on_delete
SourceDelete(i, via) ==
    /\ sources[i] # NoSource
    /\ via \in ReportObjects(sources[i].report)
    /\ sources' = [sources EXCEPT ![i] = NoSource]
    /\ update_total_emissions([sources EXCEPT ![i] = NoSource],
                              sources[i].report, via)
    /\ out' = [op |-> "source_delete", status |-> "ok", source |-> i,
               before |-> sources[i].report, after |-> 0]
    /\ UNCHANGED <<mods, strategies, now>>

\* Report.objects.get(pk=r): a caller takes a Report object from the store
FetchReport(h, r) ==
    /\ handles' = [handles EXCEPT
                      ![h] = [report |-> r, total_emissions_cache |-> cache[r]]]
    /\ out' = [op |-> "fetch_report", report |-> r, handle |-> h]
    /\ UNCHANGED <<sources, mods, strategies, cache, now>>

\* Report.get_total_emissions on a held Report object
GetTotalEmissions(h) ==
    /\ handles[h] # NoHandle
    /\ IF handles[h].total_emissions_cache = None
       THEN update_total_emissions(sources, handles[h].report, h)
       ELSE UNCHANGED <<cache, handles>>
    /\ out' = [op |-> "get_total_emissions", report |-> handles[h].report,
               handle |-> h, computed |-> handles[h].total_emissions_cache = None,
               result |-> handles'[h].total_emissions_cache]
    /\ UNCHANGED <<sources, mods, strategies, now>>

NextCache ==
    \/ \E i \in SourceIds, s \in SaveInputs, via \in {0} \cup HandleIds :
            SourceSave(i, s, via)
    \/ \E i \in SourceIds, via \in {0} \cup HandleIds : SourceDelete(i, via)
    \/ \E h \in HandleIds, r \in Reports : FetchReport(h, r)
    \/ \E h \in HandleIds : GetTotalEmissions(h)

SpecCache == InitCache /\ [][NextCache]_vars

(***************************************************************************)
(* SpecValidation: Source.save on rows that clean() accepts and rows that  *)
(* it rejects, with the receiver that follows an accepted save.            *)
(***************************************************************************)
\* Rows of every validity: value negative, zero or positive, quantity zero
\* or positive, year null, before the window, on its first and last year,
\* and on the first year after it.
ValidationInputs ==
    [report : Reports, emission_factor : {MaxEF},
     value : {-1, 0, MaxValue}, quantity : {0, MaxQuantity},
     lifetime : {MaxLifetime}, acquisition_year : {BaseYear},
     year : {None, BaseYear - 1, BaseYear, BaseYear + MaxLifetime - 1,
             BaseYear + MaxLifetime}]

InitValidation ==
    /\ sources = [i \in SourceIds |-> NoSource]
    /\ now = BaseYear
    /\ mods = NoMods
    /\ strategies = NoStrategies
    /\ cache = NoCache
    /\ handles = NoHandles
    /\ out = NoOut

NextValidation ==
    \E i \in SourceIds, s \in ValidationInputs : SourceSave(i, s, 0)

SpecValidation == InitValidation /\ [][NextValidation]_vars

(***************************************************************************)
(* Projection (views.py): project_emissions and the project_modifications  *)
(* endpoint.                                                               *)
(***************************************************************************)
MaxProjectionYears == 50

\* Decimal(str(x)): exact for a Decimal or an int, raises for None
DecimalOfStr(x) == IF x = NoDec THEN Raised ELSE x

\* The window test of project_emissions
ModApplies(m, year) ==
    m.start_year <= year /\ (m.end_year = None \/ year <= m.end_year)

\* The body of the loop over modifications: the new modified_value
ApplyModification(s, m, year, modified_value) ==
    IF ~ModApplies(m, year) THEN modified_value
    ELSE IF m.is_progressive
    THEN IF m.end_year = None THEN Raised
         ELSE LET total_years == m.end_year - m.start_year + 1
                  years_passed == Min2(year - m.start_year + 1, total_years)
                  progress == DecDiv(Dec(years_passed), Dec(total_years))
              IN  DecAdd(Dec(s.value),
                         DecMul(DecSub(DecimalOfStr(m.target_value),
                                       Dec(s.value)),
                                progress))
    ELSE IF year = m.start_year
         THEN DecMul(modified_value, DecimalOfStr(m.value))
         ELSE modified_value

\* for modification in modifications: ..., an exception ending the loop
RECURSIVE ApplyModifications(_, _, _, _)
ApplyModifications(s, ms, year, modified_value) ==
    IF ms = <<>> \/ IsRaised(modified_value) THEN modified_value
    ELSE ApplyModifications(s, Tail(ms), year,
                            ApplyModification(s, Head(ms), year, modified_value))

\* The body of "for year in years", on the loop's state: whether an
\* exception ended it, the running modified_value, the emissions so far.
ProjectYear(s, ms, year, st) ==
    IF st.raised THEN st
    ELSE IF year < s.acquisition_year
            \/ year >= s.acquisition_year + s.lifetime
    THEN [st EXCEPT !.emissions = @ @@ (year :> Dec(0))]
    ELSE LET value == ApplyModifications(s, ms, year, st.modified_value)
             modified_emission ==
                 DecDiv(DecMul(DecMul(Dec(s.emission_factor), value),
                               Dec(s.quantity)),
                        Dec(s.lifetime))
         IN  IF IsRaised(modified_emission)
             THEN [raised |-> TRUE, modified_value |-> Raised,
                   emissions |-> <<>>]
             ELSE [raised |-> FALSE, modified_value |-> value,
                   emissions |-> st.emissions @@ (year :> modified_emission)]

\* for year in range(first, last + 1), in ascending order (evaluated by
\* halves: the first half of the years, then the second on its state)
RECURSIVE ProjectYears(_, _, _, _, _)
ProjectYears(s, ms, first, last, st) ==
    IF first > last THEN st
    ELSE IF first = last THEN ProjectYear(s, ms, first, st)
    ELSE LET mid == (first + last) \div 2
             half == ProjectYears(s, ms, first, mid, st)
         IN  IF half.raised THEN half
             ELSE ProjectYears(s, ms, mid + 1, last, half)

\* project_emissions(source, modifications, start_year, end_year)
project_emissions(s, ms, start_year, end_year) ==
    ProjectYears(s, ms, start_year, end_year,
                 [raised |-> FALSE, modified_value |-> Dec(s.value),
                  emissions |-> <<>>])

\* An end year taken as requested, with no cap.
effective_end_year_uncapped(start_year, requested_end_year) ==
    IF Truthy(requested_end_year) THEN requested_end_year
    ELSE start_year + MaxProjectionYears

\* Steps 2 and 3 of project_modifications: the end year actually used
effective_end_year(start_year, requested_end_year) ==
    LET max_end_year == start_year + MaxProjectionYears
    IN  Min2(IF Truthy(requested_end_year) THEN requested_end_year
             ELSE max_end_year,
             max_end_year)

\* Modification.objects.filter(id__in=ids).order_by('start_year', 'order'):
\* the stored modifications among ids, in any order the sort key allows
OrderedModifications(ids) ==
    LET found == {m \in ids \cap ModIds : mods[m] # NoMod}
        n == Cardinality(found)
    IN  {q \in [1 .. n -> found] :
            /\ \A a, b \in 1 .. n : a # b => q[a] # q[b]
            /\ \A a, b \in 1 .. n :
                   a < b =>
                       \/ mods[q[a]].start_year < mods[q[b]].start_year
                       \/ /\ mods[q[a]].start_year = mods[q[b]].start_year
                          /\ mods[q[a]].order <= mods[q[b]].order}

(***************************************************************************)
(* SpecProjection: one stored source, one stored modification, and one     *)
(* request to the projection endpoint (it keeps nothing between requests). *)
(***************************************************************************)
ModStartYears == (BaseYear - 1) .. (BaseYear + NumYears - 1)
ProjectionStarts == (BaseYear - 1) .. (BaseYear + MaxAcqOffset)

ProjectionSources ==
    SourceRecords({1}, {MaxEF}, {MaxValue}, {MaxQuantity}, AcqYears, Lifetimes)

\* One-shot multipliers and replacements, with or without an end year.
PlainModifications ==
    UNION { [reduction_strategy : {1}, source : {1},
             modification_type : {"VALUE", "EF"},
             value : {<<1, 2>>, <<3, 1>>}, order : {1},
             start_year : {y}, end_year : {None, y - 1, y + 1},
             is_progressive : {FALSE}, target_value : {NoDec}] :
            y \in ModStartYears }

\* Progressive modifications, those lacking end_year or target_value included.
ProgressiveModifications ==
    UNION { [reduction_strategy : {1}, source : {1},
             modification_type : {"VALUE"},
             value : {<<1, 1>>}, order : {1},
             start_year : {y}, end_year : {None, y - 1, y + 1},
             is_progressive : {TRUE},
             target_value : {NoDec, Dec(MaxValue + 2)}] :
            y \in ModStartYears }

RequestedEndYears(start_year) ==
    {None, start_year - 1, start_year + 2, start_year + MaxProjectionYears,
     start_year + 1000}

InitProjection ==
    /\ sources \in {[i \in SourceIds |-> IF i = 1 THEN s ELSE NoSource] :
                       s \in ProjectionSources}
    /\ mods \in {[m \in ModIds |-> IF m = 1 THEN x ELSE NoMod] :
                    x \in PlainModifications \cup ProgressiveModifications
                          \cup {NoMod}}
    /\ strategies = NoStrategies
    /\ now = BaseYear
    /\ cache = NoCache
    /\ handles = NoHandles
    /\ out = NoOut

\* ProjectionViewSet.project_modifications
ProjectModifications(source_id, modification_ids, start_year, requested_end_year) ==
    /\ out = NoOut
    /\ IF ~Truthy(source_id)
       THEN out' = [op |-> "project_modifications", status |-> 400]
       ELSE IF sources[source_id] = NoSource
       THEN out' = [op |-> "project_modifications", status |-> 404]
       ELSE \E ms \in OrderedModifications(modification_ids),
               end_year \in {effective_end_year(start_year, requested_end_year)} :
              \E projected_emissions \in
                     {project_emissions(sources[source_id],
                                        [k \in DOMAIN ms |-> mods[ms[k]]],
                                        start_year, end_year)} :
                  IF projected_emissions.raised
                  THEN out' = [op |-> "project_modifications", status |-> 500]
                  ELSE out' = [op |-> "project_modifications", status |-> 200,
                               source_id |-> source_id,
                               modification_ids |-> modification_ids,
                               requested_end_year |-> requested_end_year,
                               projections |-> projected_emissions.emissions,
                               start_year |-> start_year,
                               end_year |-> end_year,
                               max_allowed_end_year |->
                                   start_year + MaxProjectionYears]
    /\ UNCHANGED <<sources, mods, strategies, cache, handles, now>>

NextProjection ==
    \E source_id \in {None} \cup SourceIds, modification_ids \in SUBSET ModIds,
       start_year \in ProjectionStarts :
        \E requested_end_year \in RequestedEndYears(start_year) :
            ProjectModifications(source_id, modification_ids, start_year,
                                 requested_end_year)

SpecProjection == InitProjection /\ [][NextProjection]_vars

(***************************************************************************)
(* Modification (models.py): the modification pipeline                     *)
(* calculate_modified_emission.                                            *)
(***************************************************************************)
\* raise ValidationError("Unknown modification type: ...")
ValidationError == <<1, 0>>

\* An interpolation that starts from progress 0 in start_year.
current_value_from_zero(m, s) ==
    IF m.end_year = None \/ m.target_value = NoDec THEN Raised
    ELSE LET total_years == m.end_year - m.start_year + 1
             years_passed == Min2(m.calculation_year - m.start_year, total_years)
             progress == DecDiv(Dec(years_passed), Dec(total_years))
         IN  DecAdd(Dec(s.value),
                    DecMul(DecSub(m.target_value, Dec(s.value)), progress))

\* total_years, years_passed, progress and current_value of the progressive
\* branch; None - int and Decimal - None raise TypeError
current_value(m, s) ==
    IF m.end_year = None \/ m.target_value = NoDec THEN Raised
    ELSE LET total_years == m.end_year - m.start_year + 1
             years_passed ==
                 Min2(m.calculation_year - m.start_year + 1, total_years)
             progress == DecDiv(Dec(years_passed), Dec(total_years))
         IN  DecAdd(Dec(s.value),
                    DecMul(DecSub(m.target_value, Dec(s.value)), progress))

\* A pipeline whose EF branch multiplies without dividing by the factor.
calculate_modified_emission_ef_scaled(m, s, base_emission) ==
    LET base == IF base_emission = NoDec
                THEN Dec(calculate_emission_for_year(s, m.calculation_year))
                ELSE base_emission
    IN  IF m.modification_type = "VALUE"
        THEN IF m.is_progressive
             THEN DecMul(base, DecDiv(current_value(m, s), Dec(s.value)))
             ELSE DecMul(base, m.value)
        ELSE IF m.modification_type = "EF"
        THEN DecMul(base, m.value)
        ELSE ValidationError

\* Modification.calculate_modified_emission(base_emission) of modification m
\* on source s; base_emission None is the source's emission in
\* calculation_year
calculate_modified_emission(m, s, base_emission) ==
    LET base == IF base_emission = NoDec
                THEN Dec(calculate_emission_for_year(s, m.calculation_year))
                ELSE base_emission
    IN  IF m.modification_type = "VALUE"
        THEN IF m.is_progressive
             THEN DecMul(base, DecDiv(current_value(m, s), Dec(s.value)))
             ELSE DecMul(base, m.value)
        ELSE IF m.modification_type = "EF"
        THEN DecMul(DecDiv(base, Dec(s.emission_factor)), m.value)
        ELSE ValidationError

(***************************************************************************)
(* SpecModification: one stored source, one stored modification of it, and *)
(* the pipeline applied to a base emission.                                *)
(***************************************************************************)
\* Years the pipeline is evaluated for: from before the window to after it.
CalculationYears == (BaseYear - 1) .. (BaseYear + NumYears)

PipelineSources ==
    SourceRecords({1}, {0, MaxEF}, {MaxValue}, {MaxQuantity}, AcqYears,
                  Lifetimes)

\* Modifications starting in BaseYear: of each stored kind and of a kind
\* outside MODIFICATION_TYPES, open-ended or ending before, in or after the
\* start year.
PipelineModifications ==
    [reduction_strategy : {1}, source : {1},
     modification_type : {"VALUE", "EF", "OTHER"},
     value : {<<1, 2>>, <<3, 1>>}, order : {1},
     start_year : {BaseYear},
     end_year : {None, BaseYear - 1, BaseYear, BaseYear + 2},
     is_progressive : BOOLEAN,
     target_value : {NoDec, Dec(MaxValue + 2)},
     calculation_year : CalculationYears]

BaseEmissions == {NoDec, Dec(0), Dec(MaxEF * MaxValue * MaxQuantity), <<1, 2>>}

InitModification ==
    /\ sources \in {[i \in SourceIds |-> IF i = 1 THEN s ELSE NoSource] :
                       s \in PipelineSources}
    /\ mods \in {[m \in ModIds |-> IF m = 1 THEN x ELSE NoMod] :
                    x \in PipelineModifications}
    /\ strategies = NoStrategies
    /\ now = BaseYear
    /\ cache = NoCache
    /\ handles = NoHandles
    /\ out = NoOut

\* modification.calculate_modified_emission(base_emission)
CalculateModifiedEmission(m, base_emission) ==
    /\ mods[m] # NoMod
    /\ \E result \in {calculate_modified_emission(mods[m],
                                                  sources[mods[m].source],
                                                  base_emission)} :
          out' = [op |-> "calculate_modified_emission", modification |-> m,
                  base_emission |->
                      IF base_emission = NoDec
                      THEN Dec(calculate_emission_for_year(
                                   sources[mods[m].source],
                                   mods[m].calculation_year))
                      ELSE base_emission,
                  status |-> IF result = ValidationError THEN "ValidationError"
                             ELSE IF IsRaised(result) THEN "error" ELSE "ok",
                  result |-> result]
    /\ UNCHANGED <<sources, mods, strategies, cache, handles, now>>

NextModification ==
    \E m \in ModIds, base_emission \in BaseEmissions :
        CalculateModifiedEmission(m, base_emission)

SpecModification == InitModification /\ [][NextModification]_vars

(***************************************************************************)
(* SpecModificationSave: the modifications table under Modification.save,  *)
(* with the unique_together constraint of the table.                       *)
(***************************************************************************)
MaxOrder == 4

\* An automatic order that repeats the last one.
assigned_order_unincremented(tbl, m) ==
    IF Truthy(m.order) THEN m.order
    ELSE LET same == {x \in DOMAIN tbl :
                         /\ tbl[x] # NoMod
                         /\ tbl[x].reduction_strategy = m.reduction_strategy
                         /\ tbl[x].source = m.source
                         /\ tbl[x].start_year = m.start_year}
         IN  IF same = {} THEN 0
             ELSE CHOOSE o \in {tbl[x].order : x \in same} :
                      \A x \in same : tbl[x].order <= o

\* The order Modification.save gives m: its own if it has one ("if not
\* self.order" is true of None and of 0), else Max('order') of the rows with
\* the same strategy, source and start_year, "or 0", plus 1
assigned_order(tbl, m) ==
    IF Truthy(m.order) THEN m.order
    ELSE LET same == {x \in DOMAIN tbl :
                         /\ tbl[x] # NoMod
                         /\ tbl[x].reduction_strategy = m.reduction_strategy
                         /\ tbl[x].source = m.source
                         /\ tbl[x].start_year = m.start_year}
             last_order ==
                 IF same = {} THEN 0
                 ELSE CHOOSE o \in {tbl[x].order : x \in same} :
                          \A x \in same : tbl[x].order <= o
         IN  last_order + 1

\* unique_together = ('reduction_strategy', 'source', 'start_year', 'order'):
\* row id may be written as m
UniqueTogether(tbl, id, m) ==
    \A x \in DOMAIN tbl \ {id} :
        tbl[x] # NoMod =>
            ~(/\ tbl[x].reduction_strategy = m.reduction_strategy
              /\ tbl[x].source = m.source
              /\ tbl[x].start_year = m.start_year
              /\ tbl[x].order = m.order)

\* The modifications a caller may save: with no order, with order 0, and
\* with an order of their own
SavedModifications ==
    [reduction_strategy : StrategyIds, source : {1},
     modification_type : {"VALUE"}, value : {<<1, 2>>},
     order : {None, 0, 1, 3},
     start_year : {BaseYear, BaseYear + 1}, end_year : {None},
     is_progressive : {FALSE}, target_value : {NoDec}]

InitModificationSave ==
    /\ sources \in {[i \in SourceIds |-> IF i = 1 THEN s ELSE NoSource] :
                       s \in SourceRecords({1}, {MaxEF}, {MaxValue},
                                           {MaxQuantity}, {BaseYear},
                                           {MaxLifetime})}
    /\ mods = NoMods
    /\ strategies = NoStrategies
    /\ now = BaseYear
    /\ cache = NoCache
    /\ handles = NoHandles
    /\ out = NoOut

\* Modification.save of row id (created or updated) with the fields m
ModificationSave(id, m) ==
    /\ assigned_order(mods, m) <= MaxOrder
    /\ LET saved == [m EXCEPT !.order = assigned_order(mods, m)]
       IN  IF UniqueTogether(mods, id, saved)
           THEN /\ mods' = [mods EXCEPT ![id] = saved]
                /\ out' = [op |-> "modification_save", status |-> "ok",
                           modification |-> id, order |-> saved.order]
           ELSE /\ out' = [op |-> "modification_save",
                           status |-> "IntegrityError",
                           modification |-> id, order |-> saved.order]
                /\ UNCHANGED mods
    /\ UNCHANGED <<sources, strategies, cache, handles, now>>

NextModificationSave ==
    \E id \in ModIds, m \in SavedModifications : ModificationSave(id, m)

SpecModificationSave == InitModificationSave /\ [][NextModificationSave]_vars

(***************************************************************************)
(* Reduction strategies: calculate_total_reduction (views.py),             *)
(* Report.projected_total_emissions (models.py) and the module-level       *)
(* projected_total_emissions of views.py.  numpy floats are modelled as    *)
(* the exact quotients they approximate.                                   *)
(***************************************************************************)
DecLE(a, b) == a[1] * b[2] <= b[1] * a[2]

\* np.sum / "total += ...": the sum of the Decimals f[i], i in ids
RECURSIVE DecSum(_, _)
DecSum(f, ids) ==
    IF ids = {} THEN Dec(0)
    ELSE LET i == CHOOSE j \in ids : TRUE
         IN  DecAdd(f[i], DecSum(f, ids \ {i}))

\* active_mask: the lifetime window alone
ActiveMask(s, year) ==
    s.acquisition_year <= year /\ year < s.acquisition_year + s.lifetime

\* np.where(active_mask, emission_factors * values * quantities, 0)
MaskedEmissions(tbl, rows, year) ==
    [i \in rows |-> IF ActiveMask(tbl[i], year)
                    THEN Dec(tbl[i].emission_factor * tbl[i].value
                                 * tbl[i].quantity)
                    ELSE Dec(0)]

\* strategy.modifications.filter(start_year__lte=year, source__in=sources), in
\* Meta.ordering
ReductionModifications(strategy, rows, year) ==
    OrderedModifications({m \in ModIds :
                             /\ mods[m] # NoMod
                             /\ mods[m].reduction_strategy = strategy
                             /\ mods[m].start_year <= year
                             /\ mods[m].source \in rows})

\* The body of "for mod in modifications" of calculate_total_reduction, on
\* the loop's state: whether an exception ended it, and modified_emissions.
\* The progressive branch raises on end_year None (TypeError), on
\* end_year = start_year - 1 (ZeroDivisionError), on target_value None
\* (TypeError) and on an empty mask (IndexError at values[mod_mask][0]).
ReduceModification(tbl, m, year, st) ==
    LET i == m.source
        s == tbl[i]
        mod_mask == ActiveMask(s, year)
    IN  IF st.raised THEN st
        ELSE IF m.is_progressive
        THEN IF \/ m.end_year = None
                \/ m.end_year - m.start_year + 1 = 0
                \/ ~mod_mask
                \/ m.target_value = NoDec
             THEN [st EXCEPT !.raised = TRUE]
             ELSE LET ratio == Frac(year - m.start_year + 1,
                                    m.end_year - m.start_year + 1)
                      progress == IF DecLE(ratio, Dec(1)) THEN ratio ELSE Dec(1)
                      current == DecAdd(Dec(s.value),
                                        DecMul(DecSub(m.target_value,
                                                      Dec(s.value)),
                                               progress))
                  IN  [st EXCEPT !.modified[i] =
                           DecMul(DecMul(Dec(s.emission_factor), current),
                                  Dec(s.quantity))]
        ELSE IF m.modification_type = "VALUE"
        THEN IF mod_mask
             THEN [st EXCEPT !.modified[i] = DecMul(@, m.value)]
             ELSE st
        ELSE IF m.modification_type = "EF"
        THEN IF mod_mask
             THEN [st EXCEPT !.modified[i] =
                      DecMul(@, DecDiv(m.value, Dec(s.emission_factor)))]
             ELSE st
        ELSE st

\* for mod in modifications, q being the ordered ids
RECURSIVE ReduceModifications(_, _, _, _)
ReduceModifications(tbl, q, year, st) ==
    IF q = <<>> THEN st
    ELSE ReduceModifications(tbl, Tail(q), year,
                             ReduceModification(tbl, mods[Head(q)], year, st))

\* One pass of "for year in years" for one report: the amount added to
\* total_reduction, or Raised
ReductionForYear(tbl, strategy, r, year) ==
    LET rows == SourcesOf(tbl, r)
        original_emissions == MaskedEmissions(tbl, rows, year)
        q == CHOOSE x \in ReductionModifications(strategy, rows, year) : TRUE
        st == ReduceModifications(tbl, q, year,
                                  [raised |-> FALSE,
                                   modified |-> original_emissions])
    IN  IF st.raised THEN Raised
        ELSE DecSum([i \in rows |->
                        DecSub(original_emissions[i], st.modified[i])], rows)

\* calculate_total_reduction(strategy, start_year, end_year, report), with
\* datetime.now().year = current_year
calculate_total_reduction(tbl, strategy, start_year, end_year, report, current_year) ==
    LET first == IF start_year = None THEN current_year ELSE start_year
        last == IF end_year = None THEN first ELSE end_year
        reports == IF report # None THEN {report}
                   ELSE {r \in Reports : strategy \in strategies[r]}
        passes == reports \X (first .. last)
    IN  DecSum([p \in passes |->
                   ReductionForYear(tbl, strategy, p[1], p[2])], passes)

\* The body of "for mod in modifications" of Report.projected_total_emissions:
\* base_emissions holds Decimals, and Decimal * float raises TypeError as
\* soon as the mask selects an element; a kind that is neither VALUE nor EF
\* falls through both tests.
ProjectModification(tbl, m, year, st) ==
    LET mod_mask == /\ tbl[m.source] # NoSource
                    /\ m.source \in DOMAIN st.base
                    /\ ActiveMask(tbl[m.source], year)
    IN  IF st.raised THEN st
        ELSE IF m.modification_type = "VALUE"
        THEN IF mod_mask THEN [st EXCEPT !.raised = TRUE] ELSE st
        ELSE IF m.modification_type = "EF"
        THEN IF mod_mask THEN [st EXCEPT !.raised = TRUE] ELSE st
        ELSE st

RECURSIVE ProjectStrategyModifications(_, _, _, _)
ProjectStrategyModifications(tbl, q, year, st) ==
    IF q = <<>> THEN st
    ELSE ProjectStrategyModifications(tbl, Tail(q), year,
             ProjectModification(tbl, mods[Head(q)], year, st))

\* for strategy in reduction_strategies:
\*     strategy.modifications.filter(start_year__lte=year)
RECURSIVE ProjectStrategies(_, _, _, _)
ProjectStrategies(tbl, reduction_strategies, year, st) ==
    IF reduction_strategies = <<>> THEN st
    ELSE LET strategy == Head(reduction_strategies)
             q == CHOOSE x \in OrderedModifications(
                                   {m \in ModIds :
                                       /\ mods[m] # NoMod
                                       /\ mods[m].reduction_strategy = strategy
                                       /\ mods[m].start_year <= year}) : TRUE
         IN  ProjectStrategies(tbl, Tail(reduction_strategies), year,
                               ProjectStrategyModifications(tbl, q, year, st))

\* Report.projected_total_emissions(year, reduction_strategies); None and
\* the empty list both skip the strategies
projected_total_emissions(tbl, r, year, reduction_strategies) ==
    LET rows == SourcesOf(tbl, r)
        st == ProjectStrategies(tbl, reduction_strategies, year,
                                [raised |-> FALSE,
                                 base |-> MaskedEmissions(tbl, rows, year)])
    IN  IF st.raised THEN Raised ELSE DecSum(st.base, rows)

\* A chain that stops after its first modification.
ChainModifications_first_only(s, q, emission) ==
    IF q = <<>> \/ IsRaised(emission) THEN emission
    ELSE calculate_modified_emission(mods[Head(q)], s, emission)

\* The inner loops of the module-level projected_total_emissions for one
\* source: the strategies in the order `order`, each one's modifications of
\* the source with start_year <= year in Meta.ordering, chained through
\* calculate_modified_emission; an exception ends the chain
RECURSIVE ChainModifications(_, _, _)
ChainModifications(s, q, emission) ==
    IF q = <<>> \/ IsRaised(emission) THEN emission
    ELSE ChainModifications(s, Tail(q),
                            calculate_modified_emission(mods[Head(q)], s,
                                                        emission))

RECURSIVE ChainStrategies(_, _, _, _, _)
ChainStrategies(i, s, order, year, emission) ==
    IF order = <<>> THEN emission
    ELSE LET q == CHOOSE x \in OrderedModifications(
                                   {m \in ModIds :
                                       /\ mods[m] # NoMod
                                       /\ mods[m].reduction_strategy = Head(order)
                                       /\ mods[m].source = i
                                       /\ mods[m].start_year <= year}) : TRUE
         IN  ChainStrategies(i, s, Tail(order), year,
                             ChainModifications(s, q, emission))

\* projected_total_emissions(self, year) of views.py, self being report r:
\* the projected emission of each source of the report
views_projected_total_emissions(tbl, r, year, order) ==
    [i \in SourcesOf(tbl, r) |->
        ChainStrategies(i, tbl[i], order, year,
                        Dec(calculate_emission_for_year(tbl[i], year)))]

(***************************************************************************)
(* SpecStrategy: two stored sources, two stored modifications, the         *)
(* strategies attached to the reports, and one request to a strategy       *)
(* calculation.                                                            *)
(***************************************************************************)
StrategySources ==
    SourceRecords({1}, {MaxEF}, {MaxValue}, {MaxQuantity}, AcqYears, Lifetimes)

\* A second source, in either report, or none
OtherSources ==
    {s \in SourceRecords(Reports, {MaxEF}, {MaxValue}, {MaxQuantity},
                         {BaseYear}, {MaxLifetime}) : s.year = None}
        \cup {NoSource}

\* The first modification, of source 1 in strategy 1, from BaseYear + 1:
\* one-shot of each kind (one outside MODIFICATION_TYPES), or progressive
StrategyModifications ==
    [reduction_strategy : {1}, source : {1},
     modification_type : {"VALUE", "EF", "OTHER"},
     value : {<<1, 2>>}, order : {1},
     start_year : {BaseYear + 1}, end_year : {None, BaseYear + 1},
     is_progressive : {FALSE}, target_value : {NoDec},
     calculation_year : {BaseYear + 1}]
        \cup
    [reduction_strategy : {1}, source : {1},
     modification_type : {"VALUE"},
     value : {<<1, 1>>}, order : {1},
     start_year : {BaseYear + 1}, end_year : {None, BaseYear + 1},
     is_progressive : {TRUE}, target_value : {NoDec, Dec(MaxValue + 2)},
     calculation_year : {BaseYear + 1}]

\* The second modification: a tripling from BaseYear on, of source 1 or 2 in
\* strategy 1, or of source 1 in strategy 2
OtherModifications ==
    {[reduction_strategy |-> p[1], source |-> p[2],
      modification_type |-> "VALUE", value |-> <<3, 1>>, order |-> 2,
      start_year |-> BaseYear, end_year |-> None, is_progressive |-> FALSE,
      target_value |-> NoDec, calculation_year |-> BaseYear] :
        p \in {<<1, 1>>, <<1, 2>>, <<2, 1>>}}

\* report.reduction_strategies of reports 1 and 2
StrategyLinks == {<<{}, {}>>, <<{1}, {}>>, <<{1, 2}, {1}>>}

InitStrategy ==
    /\ sources \in {<<s1, s2>> : s1 \in StrategySources, s2 \in OtherSources}
    /\ mods \in {<<m1, m2>> : m1 \in StrategyModifications \cup {NoMod},
                              m2 \in OtherModifications \cup {NoMod}}
    /\ \A m \in ModIds : mods[m] # NoMod => sources[mods[m].source] # NoSource
    /\ strategies \in StrategyLinks
    /\ now = BaseYear
    /\ cache = NoCache
    /\ handles = NoHandles
    /\ out = NoOut

\* calculate_total_reduction(strategy, start_year, end_year, report)
CalculateTotalReduction(strategy, start_year, end_year, report) ==
    /\ out = NoOut
    /\ \E result \in {calculate_total_reduction(sources, strategy, start_year,
                                                end_year, report, now)} :
          out' = [op |-> "calculate_total_reduction", strategy |-> strategy,
                  start_year |-> IF start_year = None THEN now ELSE start_year,
                  end_year |-> IF end_year # None THEN end_year
                               ELSE IF start_year = None THEN now
                               ELSE start_year,
                  reports |-> IF report # None THEN {report}
                              ELSE {r \in Reports : strategy \in strategies[r]},
                  status |-> IF IsRaised(result) THEN "error" ELSE "ok",
                  result |-> result]
    /\ UNCHANGED <<sources, mods, strategies, cache, handles, now>>

\* report.projected_total_emissions(year, reduction_strategies)
ProjectedTotalEmissions(r, year, reduction_strategies) ==
    /\ out = NoOut
    /\ \E result \in {projected_total_emissions(sources, r, year,
                                                reduction_strategies)} :
          out' = [op |-> "projected_total_emissions", report |-> r,
                  year |-> year, strategies |-> reduction_strategies,
                  status |-> IF IsRaised(result) THEN "error" ELSE "ok",
                  result |-> result]
    /\ UNCHANGED <<sources, mods, strategies, cache, handles, now>>

\* projected_total_emissions(report, year) of views.py; the strategies come
\* in the order the unordered query returns them, and the exception that
\* ends the call is that of the first source that raises
ViewProjectedTotalEmissions(r, year) ==
    /\ out = NoOut
    /\ \E order \in {q \in [1 .. Cardinality(strategies[r]) -> strategies[r]] :
                        \A a, b \in DOMAIN q : a # b => q[a] # q[b]} :
          \E emissions \in {views_projected_total_emissions(sources, r, year,
                                                            order)} :
             LET raising == {i \in DOMAIN emissions : IsRaised(emissions[i])}
             IN  IF raising = {}
                 THEN out' = [op |-> "views_projected_total_emissions",
                              report |-> r, year |-> year, status |-> "ok",
                              result |-> DecSum(emissions, DOMAIN emissions)]
                 ELSE \E i \in raising :
                         out' = [op |-> "views_projected_total_emissions",
                                 report |-> r, year |-> year,
                                 status |-> IF emissions[i] = ValidationError
                                            THEN "ValidationError"
                                            ELSE "error",
                                 result |-> emissions[i]]
    /\ UNCHANGED <<sources, mods, strategies, cache, handles, now>>

NextStrategy ==
    \/ \E start_year \in Years \cup {None}, report \in {None, 1} :
          \E end_year \in {None} \cup (IF start_year = None THEN {}
                                       ELSE {start_year + 1}) :
              CalculateTotalReduction(1, start_year, end_year, report)
    \/ \E year \in Years, reduction_strategies \in {<<>>, <<1>>, <<1, 2>>} :
          ProjectedTotalEmissions(1, year, reduction_strategies)
    \/ \E year \in Years : ViewProjectedTotalEmissions(1, year)

SpecStrategy == InitStrategy /\ [][NextStrategy]_vars

(***************************************************************************)
(* SpecConcurrent: two requests that each mutate a Source of report 1.     *)
(* Nothing in models.py or signals.py opens a transaction or takes a lock, *)
(* so a mutation is three steps that another request may run between: the  *)
(* source row is written and committed, the receiver's Report object       *)
(* computes total_emissions(), and Report.save() writes the cached total.  *)
(* `out` holds, per request, how far it is and what its Report object      *)
(* carries.                                                                *)
(***************************************************************************)
Requests == {1, 2}

\* Valid rows of report 1
ConcurrentInputs ==
    {s \in SourceRecords({1}, {MaxEF}, {MaxValue}, {MaxQuantity}, AcqYears,
                         Lifetimes) : s.year = None}

InitConcurrent ==
    /\ sources = [i \in SourceIds |-> NoSource]
    /\ mods = NoMods
    /\ strategies = NoStrategies
    /\ now = BaseYear + MaxAcqOffset
    /\ cache = NoCache
    /\ handles = NoHandles
    /\ out = [p \in Requests |-> [stage |-> "idle"]]

\* Source.save up to the end of super().save(): the row is committed
CommitSave(p, i, s) ==
    /\ out[p].stage = "idle"
    /\ clean(s)
    /\ sources' = [sources EXCEPT ![i] = s]
    /\ out' = [out EXCEPT ![p] = [stage |-> "committed", report |-> s.report]]
    /\ UNCHANGED <<mods, strategies, cache, handles, now>>

\* Source.delete up to the end of the DELETE: the row is gone
CommitDelete(p, i) ==
    /\ out[p].stage = "idle"
    /\ sources[i] # NoSource
    /\ sources' = [sources EXCEPT ![i] = NoSource]
    /\ out' = [out EXCEPT ![p] = [stage |-> "committed",
                                  report |-> sources[i].report]]
    /\ UNCHANGED <<mods, strategies, cache, handles, now>>

\* update_total_emissions, first statement:
\* self.total_emissions_cache = self.total_emissions()
ComputeTotal(p) ==
    /\ out[p].stage = "committed"
    /\ out' = [out EXCEPT ![p] =
                  [stage |-> "computed", report |-> out[p].report,
                   total_emissions_cache |->
                       total_emissions(sources, out[p].report, None, now)]]
    /\ UNCHANGED <<sources, mods, strategies, cache, handles, now>>

\* update_total_emissions, second statement: self.save()
SaveReport(p) ==
    /\ out[p].stage = "computed"
    /\ cache' = [cache EXCEPT ![out[p].report] = out[p].total_emissions_cache]
    /\ out' = [out EXCEPT ![p] = [stage |-> "done", report |-> out[p].report]]
    /\ UNCHANGED <<sources, mods, strategies, handles, now>>

NextConcurrent ==
    \/ \E p \in Requests, i \in SourceIds, s \in ConcurrentInputs :
          CommitSave(p, i, s)
    \/ \E p \in Requests, i \in SourceIds : CommitDelete(p, i)
    \/ \E p \in Requests : ComputeTotal(p)
    \/ \E p \in Requests : SaveReport(p)

SpecConcurrent == InitConcurrent /\ [][NextConcurrent]_vars

(***************************************************************************)
(* SpecFactorSave: Source.save on rows whose emission factor is zero or    *)
(* positive.                                                               *)
(***************************************************************************)
FactorInputs ==
    {s \in SourceRecords(Reports, {0, MaxEF}, {0, MaxValue}, {MaxQuantity},
                         {BaseYear}, {MaxLifetime}) : s.year = None}

NextFactorSave ==
    \E i \in SourceIds, s \in FactorInputs : SourceSave(i, s, 0)

SpecFactorSave == InitValidation /\ [][NextFactorSave]_vars

(***************************************************************************)
(* SpecProgressiveSave: Modification.save on progressive modifications     *)
(* with and without target_value and end_year.                             *)
(***************************************************************************)
ProgressiveSaves ==
    [reduction_strategy : {1}, source : {1},
     modification_type : {"VALUE"}, value : {<<1, 1>>},
     order : {None, 1},
     start_year : {BaseYear},
     end_year : {None, BaseYear - 1, BaseYear, BaseYear + 1},
     is_progressive : {TRUE}, target_value : {NoDec, Dec(MaxValue + 2)}]

NextProgressiveSave ==
    \E id \in ModIds, m \in ProgressiveSaves : ModificationSave(id, m)

SpecProgressiveSave == InitModificationSave /\ [][NextProgressiveSave]_vars

(***************************************************************************)
(* SpecProjectionPair: two stored sources, two stored modifications with   *)
(* different start years, and one request to the projection endpoint.      *)
(***************************************************************************)
PairSources ==
    {s \in ProjectionSources : s.year = None}

PairOtherSources ==
    {s \in SourceRecords({1}, {MaxEF}, {MaxValue}, {MaxQuantity}, {BaseYear},
                         {MaxLifetime}) : s.year = None}

\* The earlier modification: a one-shot multiplier of either source
PairFirstModifications ==
    [reduction_strategy : {1}, source : SourceIds,
     modification_type : {"VALUE", "EF"},
     value : {<<1, 2>>}, order : {1},
     start_year : {BaseYear}, end_year : {None},
     is_progressive : {FALSE}, target_value : {NoDec}]

\* The later modification of source 1: a one-shot multiplier or a
\* progressive modification
PairSecondModifications ==
    [reduction_strategy : {1}, source : {1},
     modification_type : {"VALUE"},
     value : {<<3, 1>>}, order : {2},
     start_year : {BaseYear + 1}, end_year : {BaseYear + 2},
     is_progressive : BOOLEAN, target_value : {Dec(MaxValue + 2)}]

PairStarts == BaseYear .. (BaseYear + 1)

InitProjectionPair ==
    /\ sources \in {[i \in SourceIds |-> IF i = 1 THEN s ELSE t] :
                       s \in PairSources, t \in PairOtherSources}
    /\ mods \in {[m \in ModIds |-> IF m = 1 THEN x ELSE y] :
                    x \in PairFirstModifications,
                    y \in PairSecondModifications}
    /\ strategies = NoStrategies
    /\ now = BaseYear
    /\ cache = NoCache
    /\ handles = NoHandles
    /\ out = NoOut

NextProjectionPair ==
    \E source_id \in SourceIds, modification_ids \in SUBSET ModIds,
       start_year \in PairStarts :
        \E requested_end_year \in {None, start_year + 2} :
            ProjectModifications(source_id, modification_ids, start_year,
                                 requested_end_year)

SpecProjectionPair == InitProjectionPair /\ [][NextProjectionPair]_vars

(***************************************************************************)
(* SpecChain: one source, two stored modifications of it, and calls that   *)
(* pass an emission through both in a given order.                         *)
(***************************************************************************)
ChainSources ==
    {s \in SourceRecords({1}, EmissionFactors, {MaxValue}, {MaxQuantity},
                         {BaseYear}, {MaxLifetime}) : s.year = None}

ChainedModifications ==
    [reduction_strategy : {1}, source : {1},
     modification_type : {"VALUE", "EF"},
     value : {<<1, 2>>, <<3, 1>>}, order : {1},
     start_year : {BaseYear}, end_year : {None},
     is_progressive : {FALSE}, target_value : {NoDec},
     calculation_year : {BaseYear}]
        \cup
    [reduction_strategy : {1}, source : {1},
     modification_type : {"VALUE"},
     value : {<<1, 1>>}, order : {1},
     start_year : {BaseYear}, end_year : {BaseYear + 1},
     is_progressive : {TRUE}, target_value : {Dec(MaxValue + 2)},
     calculation_year : {BaseYear}]

ChainEmissions == {Dec(MaxEF * MaxValue * MaxQuantity), <<1, 2>>}

InitChain ==
    /\ sources \in {[i \in SourceIds |-> IF i = 1 THEN s ELSE NoSource] :
                       s \in ChainSources}
    /\ mods \in {<<x, [y EXCEPT !.order = 2]>> :
                    x \in ChainedModifications, y \in ChainedModifications}
    /\ strategies = NoStrategies
    /\ now = BaseYear
    /\ cache = NoCache
    /\ handles = NoHandles
    /\ out = NoOut

\* second.calculate_modified_emission(first.calculate_modified_emission(e))
ChainPair(first, second, emission) ==
    /\ out = NoOut
    /\ first # second
    /\ \E result \in {ChainModifications(sources[1], <<first, second>>,
                                         emission)} :
          out' = [op |-> "chain", first |-> first, second |-> second,
                  emission |-> emission,
                  status |-> IF IsRaised(result) THEN "error" ELSE "ok",
                  result |-> result]
    /\ UNCHANGED <<sources, mods, strategies, cache, handles, now>>

NextChain ==
    \E first \in ModIds, second \in ModIds, emission \in ChainEmissions :
        ChainPair(first, second, emission)

SpecChain == InitChain /\ [][NextChain]_vars

(***************************************************************************)
(* SpecAttach: requests that attach or detach a reduction strategy, each   *)
(* holding the Report object it fetched, interleaved with Source saves and *)
(* deletes on the same store.                                              *)
(***************************************************************************)
AttachInputs ==
    {s \in SourceRecords({1}, {MaxEF}, Values, {MaxQuantity}, {BaseYear},
                         {MaxLifetime}) : s.year = None}

InitAttach ==
    /\ sources = [i \in SourceIds |-> NoSource]
    /\ now = BaseYear
    /\ mods = NoMods
    /\ strategies = NoStrategies
    /\ cache = NoCache
    /\ handles = NoHandles
    /\ out = NoOut

\* add_strategy after get_object: reduction_strategies.add(strategy), then
\* report.save(), which writes every field of the held object
AddStrategy(h, strategy) ==
    /\ handles[h] # NoHandle
    /\ LET r == handles[h].report
       IN  /\ strategies' = [strategies EXCEPT ![r] = @ \cup {strategy}]
           /\ cache' = [cache EXCEPT ![r] = handles[h].total_emissions_cache]
           /\ out' = [op |-> "add_strategy", report |-> r,
                      strategy |-> strategy, cache_before |-> cache[r]]
    /\ handles' = [handles EXCEPT ![h] = NoHandle]
    /\ UNCHANGED <<sources, mods, now>>

\* remove_strategy after get_object: reduction_strategies.remove(strategy)
RemoveStrategy(h, strategy) ==
    /\ handles[h] # NoHandle
    /\ LET r == handles[h].report
       IN  /\ strategies' = [strategies EXCEPT ![r] = @ \ {strategy}]
           /\ out' = [op |-> "remove_strategy", report |-> r,
                      strategy |-> strategy, cache_before |-> cache[r]]
    /\ handles' = [handles EXCEPT ![h] = NoHandle]
    /\ UNCHANGED <<sources, mods, cache, now>>

NextAttach ==
    \/ \E i \in SourceIds, s \in AttachInputs : SourceSave(i, s, 0)
    \/ \E i \in SourceIds : SourceDelete(i, 0)
    \/ \E h \in HandleIds, r \in Reports : FetchReport(h, r)
    \/ \E h \in HandleIds, strategy \in StrategyIds : AddStrategy(h, strategy)
    \/ \E h \in HandleIds, strategy \in StrategyIds :
          RemoveStrategy(h, strategy)

SpecAttach == InitAttach /\ [][NextAttach]_vars

(***************************************************************************)
(* Properties of the calculators.                                          *)
(***************************************************************************)
InLifetime(s, year) ==
    s.acquisition_year <= year /\ year < s.acquisition_year + s.lifetime

\* C1: calculate_emission_for_year returns 0 when the source is pinned to
\* another year, 0 outside [acquisition_year, acquisition_year + lifetime),
\* and emission_factor * value * quantity otherwise.
C1_EmissionForYear ==
    out.op = "emission_for_year" =>
        LET s == sources[out.source]
            pinnedElsewhere == s.year # None /\ s.year # out.year
        IN  /\ pinnedElsewhere => out.result = 0
            /\ ~InLifetime(s, out.year) => out.result = 0
            /\ (~pinnedElsewhere /\ InLifetime(s, out.year)) =>
                   out.result = s.emission_factor * s.value * s.quantity

\* A pinned source asked for another year of its lifetime answers 0.
C1_Witness ==
    /\ out.op = "emission_for_year"
    /\ sources[out.source].year # None
    /\ sources[out.source].year # out.year
    /\ InLifetime(sources[out.source], out.year)
    /\ out.result = 0

\* C2: total_emission is annual_emission times
\* min(max(0, reference_year - acquisition_year + 1), lifetime): 0 for a
\* source acquired after the reference year, at most annual * lifetime.
C2_LifetimeTotal ==
    out.op = "total_emission" =>
        LET s == sources[out.source]
            annual == s.emission_factor * s.value * s.quantity
            elapsed == out.year - s.acquisition_year + 1
            active == IF elapsed < 0 THEN 0 ELSE elapsed
            capped == IF active < s.lifetime THEN active ELSE s.lifetime
        IN  /\ out.result = annual * capped
            /\ s.acquisition_year > out.year => out.result = 0
            /\ out.result <= annual * s.lifetime

\* A source acquired two or more years after the reference year totals 0.
C2_Witness ==
    /\ out.op = "total_emission"
    /\ sources[out.source].acquisition_year > out.year + 1
    /\ out.result = 0

\* C3: total_emissions(report, year) is the sum over the report's sources
\* of calculate_emission_for_year(source, year), pinned sources included.
C3_YearTotalIsSumOfEmissionForYear ==
    (out.op = "total_emissions" /\ out.year # None) =>
        LET rows == SourcesOf(sources, out.report)
        IN  out.result =
                Sum([i \in rows |->
                       calculate_emission_for_year(sources[i], out.year)], rows)

\* C4: total_emissions(report) with no year is the sum of the sources'
\* lifetime totals, the years active clamped to 0..lifetime.
C4_NoYearTotalIsSumOfLifetimeTotals ==
    (out.op = "total_emissions" /\ out.year = None) =>
        LET rows == SourcesOf(sources, out.report)
        IN  out.result =
                Sum([i \in rows |-> total_emission(sources[i], now)], rows)

\* C5: compare_emissions never raises; emissions1 and emissions2 are the
\* totals of the two years, difference = emissions2 - emissions1, and
\* percentage_change = difference / emissions1 * 100, or 0 when emissions1
\* is zero.
C5_CompareEmissions ==
    out.op = "compare_emissions" =>
        LET c == out.result
            pc == c.percentage_change
        IN  /\ out.status = "ok"
            /\ c.year1 = out.year1 /\ c.year2 = out.year2
            /\ c.emissions1 = total_emissions(sources, out.report, out.year1, now)
            /\ c.emissions2 = total_emissions(sources, out.report, out.year2, now)
            /\ c.difference = c.emissions2 - c.emissions1
            /\ pc[2] > 0
            /\ c.emissions1 # 0 =>
                   pc[1] * c.emissions1 = 100 * c.difference * pc[2]
            /\ c.emissions1 = 0 => pc = <<0, 1>>

\* A comparison against a year with no emissions reports a change of 0.
C5_Witness ==
    /\ out.op = "compare_emissions"
    /\ out.status = "ok"
    /\ out.result.emissions1 = 0
    /\ out.result.emissions2 > 0
    /\ out.result.percentage_change = <<0, 1>>

(***************************************************************************)
(* Properties of the report cache.                                         *)
(***************************************************************************)
FreshTotal(r) == total_emissions(sources, r, None, now)

\* C6: after a Source create, update or delete has run to completion, the
\* stored cache of every report that owned the source before or after it
\* equals total_emissions(report) recomputed fresh.
C6_CacheFreshAfterMutation ==
    (out.op \in {"source_save", "source_delete"} /\ out.status = "ok") =>
        \A r \in Reports :
            r \in {out.before, out.after} => cache[r] = FreshTotal(r)

\* C7: every read of the cached total returns total_emissions(report)
\* recomputed fresh at that moment.
C7_ReadIsFresh ==
    out.op = "get_total_emissions" => out.result = FreshTotal(out.report)

(***************************************************************************)
(* Properties of the projection.                                           *)
(***************************************************************************)
Projected == out.op = "project_modifications" /\ out.status = 200

\* C8: the projection uses end_year = min(requested, start_year + 50)
\* (start_year + 50 when none is requested), reports max_allowed_end_year =
\* start_year + 50, and holds exactly one entry for each year of
\* [start_year, end_year]: never more than 51.
C8_ProjectionHorizon ==
    Projected =>
        LET cap == out.start_year + 50
            req == out.requested_end_year
        IN  /\ out.max_allowed_end_year = cap
            /\ req = None => out.end_year = cap
            /\ (req # None /\ req <= cap) => out.end_year = req
            /\ (req # None /\ req > cap) => out.end_year = cap
            /\ DOMAIN out.projections = out.start_year .. out.end_year
            /\ Cardinality(DOMAIN out.projections) <= 51

\* A request for start_year + 1000 is answered with 51 years.
C8_Witness ==
    /\ Projected
    /\ out.requested_end_year = out.start_year + 1000
    /\ out.end_year = out.start_year + 50
    /\ Cardinality(DOMAIN out.projections) = 51

\* C9: every projected year in which the source is inactive (before the
\* acquisition, at or after acquisition_year + lifetime, or not the pinned
\* year) has emission 0, whatever the modifications.
C9_InactiveYearsProjectZero ==
    Projected =>
        LET s == sources[out.source_id]
        IN  \A y \in DOMAIN out.projections :
                (\/ ~InLifetime(s, y)
                 \/ (s.year # None /\ s.year # y)) =>
                    out.projections[y] = Dec(0)

\* C10: with a single one-shot VALUE modification of multiplier v starting
\* in S, start_year <= S <= end_year, every in-lifetime year before S has
\* ef * value * quantity / lifetime and every in-lifetime year from S on has
\* ef * value * v * quantity / lifetime.
C10_ValueMultiplierCarriedForward ==
    (/\ Projected
     /\ out.modification_ids = {1}
     /\ mods[1] # NoMod
     /\ sources[out.source_id].year = None) =>
        LET s == sources[out.source_id]
            m == mods[1]
            base == Frac(s.emission_factor * s.value * s.quantity, s.lifetime)
        IN  (/\ m.modification_type = "VALUE"
             /\ ~m.is_progressive
             /\ m.end_year = None
             /\ out.start_year <= m.start_year
             /\ m.start_year <= out.end_year) =>
                \A y \in DOMAIN out.projections :
                    InLifetime(s, y) =>
                        out.projections[y] =
                            IF y < m.start_year THEN base
                            ELSE DecMul(base, m.value)

\* C11: with a single progressive modification over [s, e] with target T,
\* every in-lifetime year y of [s, e] has
\* ef * (value + (T - value) * (y - s + 1) / (e - s + 1)) * quantity / lifetime
\* and every in-lifetime year after e has ef * T * quantity / lifetime.
C11_ProgressiveProjection ==
    (/\ Projected
     /\ out.modification_ids = {1}
     /\ mods[1] # NoMod
     /\ sources[out.source_id].year = None) =>
        LET s == sources[out.source_id]
            m == mods[1]
        IN  (/\ m.is_progressive
             /\ m.end_year # None
             /\ m.start_year <= m.end_year
             /\ m.target_value # NoDec) =>
                \A y \in DOMAIN out.projections :
                    (InLifetime(s, y) /\ m.start_year <= y) =>
                        out.projections[y] =
                            IF y <= m.end_year
                            THEN LET progress ==
                                         Frac(y - m.start_year + 1,
                                              m.end_year - m.start_year + 1)
                                     current ==
                                         DecAdd(Dec(s.value),
                                                DecMul(DecSub(m.target_value,
                                                              Dec(s.value)),
                                                       progress))
                                 IN  DecDiv(DecMul(DecMul(Dec(s.emission_factor),
                                                          current),
                                                   Dec(s.quantity)),
                                            Dec(s.lifetime))
                            ELSE DecDiv(DecMul(DecMul(Dec(s.emission_factor),
                                                      m.target_value),
                                               Dec(s.quantity)),
                                        Dec(s.lifetime))

(***************************************************************************)
(* Properties of the modification pipeline.                                *)
(***************************************************************************)
Piped == out.op = "calculate_modified_emission"

\* The evaluated year lies in the modification's window
InWindow(m) ==
    /\ m.start_year <= m.calculation_year
    /\ m.end_year = None \/ m.calculation_year <= m.end_year

\* A progressive modification with the fields its formula reads
Interpolating(m) ==
    /\ m.modification_type = "VALUE"
    /\ m.is_progressive
    /\ m.end_year # None
    /\ m.target_value # NoDec

\* base * current / value: the emission for an interpolated current value
Scaled(base, current, value) == DecDiv(DecMul(base, current), Dec(value))

\* C12 as stated: over [s, e] the interpolated value is source.value in s
\* (progress 0), the target in e (progress 1) and proportionally between:
\* value + (T - value) * (year - s) / (e - s).
C12_InterpolationFromZero ==
    Piped =>
        LET m == mods[out.modification]
            s == sources[m.source]
        IN  (/\ Interpolating(m)
             /\ m.start_year < m.end_year
             /\ InWindow(m)) =>
                out.result =
                    Scaled(out.base_emission,
                           DecAdd(Dec(s.value),
                                  DecMul(DecSub(m.target_value, Dec(s.value)),
                                         Frac(m.calculation_year - m.start_year,
                                              m.end_year - m.start_year))),
                           s.value)

\* C12, amended: over [s, e] the interpolated value is
\* value + (T - value) * (year - s + 1) / (e - s + 1): the target in e
\* (progress 1), and already one step of 1 / (e - s + 1) towards it in s.
C12_InterpolationFromFirstStep ==
    Piped =>
        LET m == mods[out.modification]
            s == sources[m.source]
        IN  (/\ Interpolating(m)
             /\ m.start_year <= m.end_year
             /\ InWindow(m)) =>
                /\ out.result =
                       Scaled(out.base_emission,
                              DecAdd(Dec(s.value),
                                     DecMul(DecSub(m.target_value, Dec(s.value)),
                                            Frac(m.calculation_year
                                                     - m.start_year + 1,
                                                 m.end_year - m.start_year + 1))),
                              s.value)
                /\ m.calculation_year = m.end_year =>
                       out.result =
                           Scaled(out.base_emission, m.target_value, s.value)

\* An intermediate year of a progressive modification, on a non-zero base.
C12_Witness ==
    /\ Piped
    /\ Interpolating(mods[out.modification])
    /\ mods[out.modification].start_year < mods[out.modification].calculation_year
    /\ mods[out.modification].calculation_year < mods[out.modification].end_year
    /\ out.status = "ok"
    /\ out.result # out.base_emission

\* C13: outside its window (year < start_year, or end_year set and
\* year > end_year) a modification of any kind returns the base unchanged.
C13_OutsideWindowIsNoOp ==
    (Piped /\ ~InWindow(mods[out.modification])) =>
        out.result = out.base_emission

\* C14: inside its window a non-progressive VALUE modification returns
\* base * value and an EF modification returns (base / emission_factor) * value.
C14_ValueAndEFFormulas ==
    Piped =>
        LET m == mods[out.modification]
            s == sources[m.source]
        IN  InWindow(m) =>
                /\ (m.modification_type = "VALUE" /\ ~m.is_progressive) =>
                       /\ out.status = "ok"
                       /\ out.result = Frac(out.base_emission[1] * m.value[1],
                                            out.base_emission[2] * m.value[2])
                /\ (m.modification_type = "EF" /\ s.emission_factor # 0) =>
                       /\ out.status = "ok"
                       /\ out.result =
                              Frac(out.base_emission[1] * m.value[1],
                                   out.base_emission[2] * s.emission_factor
                                       * m.value[2])

\* An EF modification evaluated inside its window on a non-zero base.
C14_Witness ==
    /\ Piped
    /\ mods[out.modification].modification_type = "EF"
    /\ InWindow(mods[out.modification])
    /\ sources[mods[out.modification].source].emission_factor # 0
    /\ out.base_emission # Dec(0)
    /\ out.status = "ok"

(***************************************************************************)
(* Properties of the strategy calculations.                                *)
(***************************************************************************)
StoredMods == {m \in ModIds : mods[m] # NoMod}

\* A modification of a stored kind, with the fields its kind reads
WellFormed(m) ==
    /\ m.modification_type \in {"VALUE", "EF"}
    /\ m.is_progressive =>
           /\ m.modification_type = "VALUE"
           /\ m.end_year # None
           /\ m.target_value # NoDec
           /\ m.start_year <= m.end_year

\* The window [start_year, end_year] of m contains year
WindowContains(m, year) ==
    m.start_year <= year /\ (m.end_year = None \/ year <= m.end_year)

\* The modifications q applied in turn to an emission of source s, each by
\* its own kind and evaluated for year
RECURSIVE ChainedEmission(_, _, _, _)
ChainedEmission(s, q, year, emission) ==
    IF q = <<>> THEN emission
    ELSE LET m == mods[Head(q)]
             applied ==
                 IF m.modification_type = "EF"
                 THEN DecMul(DecDiv(emission, Dec(s.emission_factor)), m.value)
                 ELSE IF m.is_progressive
                 THEN Scaled(emission,
                             DecAdd(Dec(s.value),
                                    DecMul(DecSub(m.target_value, Dec(s.value)),
                                           Frac(Min2(year, m.end_year)
                                                    - m.start_year + 1,
                                                m.end_year - m.start_year + 1))),
                             s.value)
                 ELSE DecMul(emission, m.value)
         IN  ChainedEmission(s, Tail(q), year, applied)

\* C15: an operation that applies a modification whose kind is neither VALUE
\* nor EF fails; it neither skips the modification nor treats it as another
\* kind.
C15_UnknownKindFails ==
    LET unknown == {m \in StoredMods :
                       mods[m].modification_type \notin {"VALUE", "EF"}}
    IN  /\ (/\ out.op = "calculate_total_reduction"
            /\ \E m \in unknown, r \in out.reports :
                   /\ mods[m].reduction_strategy = out.strategy
                   /\ mods[m].source \in SourcesOf(sources, r)
                   /\ mods[m].start_year <= out.end_year
                   /\ out.start_year <= out.end_year) => out.status # "ok"
        /\ (/\ out.op = "projected_total_emissions"
            /\ \E m \in unknown, k \in DOMAIN out.strategies :
                   /\ mods[m].reduction_strategy = out.strategies[k]
                   /\ mods[m].start_year <= out.year) => out.status # "ok"
        /\ (/\ out.op = "views_projected_total_emissions"
            /\ \E m \in unknown :
                   /\ mods[m].reduction_strategy \in strategies[out.report]
                   /\ mods[m].source \in SourcesOf(sources, out.report)
                   /\ mods[m].start_year <= out.year) => out.status # "ok"

\* The reduction of source i in year under strategy: emission_for_year less
\* the emission modified by the strategy's modifications of the source whose
\* window contains the year
ExpectedReduction(i, strategy, year) ==
    LET original == Dec(calculate_emission_for_year(sources[i], year))
        q == CHOOSE x \in OrderedModifications(
                              {m \in StoredMods :
                                  /\ mods[m].reduction_strategy = strategy
                                  /\ mods[m].source = i
                                  /\ WindowContains(mods[m], year)}) : TRUE
    IN  DecSub(original, ChainedEmission(sources[i], q, year, original))

\* C18: total_reduction is the sum over the reports, the years of
\* [start_year, end_year] and the report's sources of original - modified,
\* and it is 0 when no modification's window contains a year of the range.
C18_TotalReductionIsSumOfDifferences ==
    (/\ out.op = "calculate_total_reduction"
     /\ \A m \in StoredMods : WellFormed(mods[m])) =>
        LET terms == {p \in out.reports \X (out.start_year .. out.end_year)
                                        \X SourceIds :
                         p[3] \in SourcesOf(sources, p[1])}
        IN  /\ out.status = "ok"
            /\ out.result =
                   DecSum([p \in terms |->
                              ExpectedReduction(p[3], out.strategy, p[2])],
                          terms)
            /\ (\A m \in StoredMods, y \in out.start_year .. out.end_year :
                    ~WindowContains(mods[m], y)) => out.result = Dec(0)

\* C19: projected_total_emissions is the sum over the report's sources of
\* emission_for_year with every modification of every supplied strategy that
\* references the source and has start_year <= year applied in turn; with
\* no strategies it is the sum of emission_for_year.
C19_ProjectedTotalIsChainedSum ==
    (/\ out.op = "projected_total_emissions"
     /\ \A m \in StoredMods : WellFormed(mods[m])) =>
        LET rows == SourcesOf(sources, out.report)
            supplied == {out.strategies[k] : k \in DOMAIN out.strategies}
            chain(i) ==
                CHOOSE x \in OrderedModifications(
                                 {m \in StoredMods :
                                     /\ mods[m].reduction_strategy \in supplied
                                     /\ mods[m].source = i
                                     /\ mods[m].start_year <= out.year}) : TRUE
        IN  /\ out.status = "ok"
            /\ out.result =
                   DecSum([i \in rows |->
                              ChainedEmission(sources[i], chain(i), out.year,
                                  Dec(calculate_emission_for_year(sources[i],
                                                                  out.year)))],
                          rows)

(***************************************************************************)
(* Properties of Source validation.                                        *)
(***************************************************************************)
\* value > 0, quantity > 0 and, when year is set, a year of the lifetime
ValidSource(s) ==
    /\ s.value > 0
    /\ s.quantity > 0
    /\ s.year # None =>
           /\ s.acquisition_year <= s.year
           /\ s.year < s.acquisition_year + s.lifetime

StoredSourcesValid ==
    \A i \in SourceIds : sources[i] # NoSource => ValidSource(sources[i])

\* A save of a row that is not valid raises ValidationError and changes
\* neither the sources table nor a cached total
RejectedSaveChangesNothing ==
    \A i \in SourceIds, s \in ValidationInputs :
        (SourceSave(i, s, 0) /\ ~ValidSource(s)) =>
            /\ out'.status = "ValidationError"
            /\ sources' = sources
            /\ cache' = cache

SameKey(m) ==
    {x \in StoredMods :
        /\ mods[x].reduction_strategy = m.reduction_strategy
        /\ mods[x].source = m.source
        /\ mods[x].start_year = m.start_year}

\* No two stored modifications share (strategy, source, start_year, order)
OrdersUnique ==
    \A a, b \in StoredMods :
        (/\ a # b
         /\ mods[a].reduction_strategy = mods[b].reduction_strategy
         /\ mods[a].source = mods[b].source
         /\ mods[a].start_year = mods[b].start_year) =>
            mods[a].order # mods[b].order

\* A save without an order that is stored takes order 1 + the largest
\* order of its key, or 1
AutomaticOrderIsNext ==
    \A id \in ModIds, m \in SavedModifications :
        (/\ ModificationSave(id, m)
         /\ m.order \in {None, 0}
         /\ out'.status = "ok") =>
            /\ SameKey(m) = {} => mods'[id].order = 1
            /\ SameKey(m) # {} =>
                   /\ \E x \in SameKey(m) : mods'[id].order = mods[x].order + 1
                   /\ \A x \in SameKey(m) : mods'[id].order > mods[x].order

\* C17: a Modification saved without an order gets 1 + the maximum order
\* stored for its (strategy, source, start_year), or 1 when there is none,
\* and no two stored modifications ever share (strategy, source, start_year,
\* order).
C17_AutomaticOrder ==
    [](OrdersUnique) /\ [][AutomaticOrderIsNext]_vars

\* Two stored modifications of one key, the second ordered after the first
\* by an automatic order.
C17_Witness ==
    /\ out.op = "modification_save"
    /\ out.status = "ok"
    /\ \E a, b \in StoredMods :
           /\ a # b
           /\ b = out.modification
           /\ mods[b] \in {[m EXCEPT !.order = mods[a].order + 1] :
                              m \in {mods[a]}}

(***************************************************************************)
(* Properties of concurrent mutations.                                     *)
(***************************************************************************)
\* C20: once two concurrent Source mutations of a report have both
\* finished, the stored cached total of the report equals
\* total_emissions(report) recomputed fresh, under every interleaving.
C20_ConcurrentMutationsLeaveFreshCache ==
    (\A p \in Requests : out[p].stage = "done") =>
        \A p \in Requests : cache[out[p].report] = FreshTotal(out[p].report)

(***************************************************************************)
(* Properties of the validation of emission factors and of progressive     *)
(* modifications.                                                          *)
(***************************************************************************)
\* C21: a Source with emission_factor 0 is rejected by validation, so no
\* stored source has emission_factor 0.
C21_ZeroEmissionFactorRejected ==
    /\ \A i \in SourceIds :
           sources[i] # NoSource => sources[i].emission_factor # 0
    /\ (out.op = "source_save" /\ out.status = "ok") =>
           sources[out.source].emission_factor # 0

\* C22: a progressive Modification without target_value, without end_year or
\* with end_year < start_year is rejected, so every stored progressive
\* modification has target_value, end_year and end_year >= start_year.
C22_ProgressiveModificationValidated ==
    \A m \in StoredMods :
        mods[m].is_progressive =>
            /\ mods[m].target_value # NoDec
            /\ mods[m].end_year # None
            /\ mods[m].end_year >= mods[m].start_year

(***************************************************************************)
(* Properties of the projection of several modifications.                  *)
(***************************************************************************)
\* The projection of source s under the stored modifications ids alone,
\* over the years of the answered request
ProjectionOf(s, ids) ==
    LET q == CHOOSE x \in OrderedModifications(ids) : TRUE
    IN  project_emissions(s, [k \in DOMAIN q |-> mods[q[k]]],
                          out.start_year, out.end_year).emissions

\* C23: the modifications of one source are applied in ascending
\* (start_year, order) and chained, each on the output of the previous one:
\* a one-shot multiplier applied first is still a factor of every later
\* year's emission, whether the later modification is progressive or not.
C23_ModificationsChained ==
    (/\ Projected
     /\ out.modification_ids = {1, 2}
     /\ mods[1].source = out.source_id
     /\ mods[2].source = out.source_id
     /\ out.start_year <= mods[1].start_year
     /\ InLifetime(sources[out.source_id], mods[1].start_year)) =>
        \A y \in DOMAIN out.projections :
            y >= mods[1].start_year =>
                out.projections[y] =
                    DecMul(mods[1].value,
                           ProjectionOf(sources[out.source_id], {2})[y])

\* C29: a modification id passed to project_modifications that belongs to
\* a different source has no effect on the projection of the source.
C29_OtherSourcesModificationsIgnored ==
    Projected =>
        out.projections =
            ProjectionOf(sources[out.source_id],
                         {m \in out.modification_ids :
                             mods[m].source = out.source_id})

\* C26: the emission project reports for a year does not depend on where
\* the projection starts: with well-formed modifications, every start year
\* up to that year gives the same emission for it.
C26_StartIndependent ==
    (/\ Projected
     /\ \A m \in out.modification_ids \cap StoredMods : WellFormed(mods[m])) =>
        \A y \in DOMAIN out.projections \cap Years, start_year \in ProjectionStarts :
            start_year <= y =>
                LET q == CHOOSE x \in OrderedModifications(out.modification_ids) : TRUE
                    other == project_emissions(sources[out.source_id],
                                               [k \in DOMAIN q |-> mods[q[k]]],
                                               start_year, y)
                IN  ~other.raised /\ other.emissions[y] = out.projections[y]

\* C30: a non-progressive EF modification with value v and start_year S
\* replaces the emission factor: every in-lifetime year from S on is
\* projected as v * value * quantity / lifetime.
C30_EFModificationReplacesFactor ==
    (/\ Projected
     /\ out.modification_ids = {1}
     /\ mods[1] # NoMod
     /\ mods[1].modification_type = "EF"
     /\ ~mods[1].is_progressive
     /\ mods[1].end_year = None
     /\ out.start_year <= mods[1].start_year
     /\ InLifetime(sources[out.source_id], mods[1].start_year)) =>
        \A y \in DOMAIN out.projections :
            (y >= mods[1].start_year /\ InLifetime(sources[out.source_id], y)) =>
                out.projections[y] =
                    DecDiv(DecMul(mods[1].value,
                                  Dec(sources[out.source_id].value
                                      * sources[out.source_id].quantity)),
                           Dec(sources[out.source_id].lifetime))

(***************************************************************************)
(* Properties of the reduction of a strategy against the pipeline.         *)
(***************************************************************************)
Reduced == out.op = "calculate_total_reduction"

\* C27: in years in which every source is inactive, every kind of
\* modification yields a modified emission of 0: calculate_total_reduction
\* completes without error and counts a reduction of 0.
C27_InactiveYearsReduceNothing ==
    (/\ Reduced
     /\ \A m \in StoredMods : WellFormed(mods[m])
     /\ \A y \in out.start_year .. out.end_year, i \in SourceIds :
            (sources[i] # NoSource /\ sources[i].report \in out.reports) =>
                ~InLifetime(sources[i], y)) =>
        out.status = "ok" /\ out.result = Dec(0)

\* C25: for a source, a progressive modification and a year, the modified
\* emission calculate_total_reduction computes equals
\* calculate_modified_emission for the same year on the same input emission,
\* when the progressive modification is the only one and when it follows
\* earlier modifications of the source.
C25_ReductionAgreesWithPipeline ==
    (/\ Reduced
     /\ out.status = "ok"
     /\ out.start_year = out.end_year
     /\ out.reports = {1}
     /\ SourcesOf(sources, 1) = {1}
     /\ mods[1] # NoMod
     /\ mods[1].is_progressive
     /\ WellFormed(mods[1])
     /\ mods[1].reduction_strategy = out.strategy
     /\ mods[1].start_year <= out.start_year
     /\ ActiveMask(sources[1], out.start_year)) =>
        LET year == out.start_year
            original == MaskedEmissions(sources, {1}, year)
            q == CHOOSE x \in ReductionModifications(out.strategy, {1}, year) : TRUE
            earlier == SubSeq(q, 1, Len(q) - 1)
            input == ReduceModifications(sources, earlier, year,
                                         [raised |-> FALSE,
                                          modified |-> original]).modified[1]
        IN  /\ q[Len(q)] = 1
            /\ DecSub(original[1], out.result) =
                   calculate_modified_emission(
                       [mods[1] EXCEPT !.calculation_year = year],
                       sources[1], input)

(***************************************************************************)
(* Properties of the order of two chained modifications.                   *)
(***************************************************************************)
Chained == out.op = "chain"

\* The two chained modifications are one-shot, of the given kinds
OneShotPair(kinds) ==
    /\ ~mods[1].is_progressive
    /\ ~mods[2].is_progressive
    /\ {mods[1].modification_type, mods[2].modification_type} = kinds

\* The same emission passed through the two modifications in the other order
Swapped ==
    ChainModifications(sources[1], <<out.second, out.first>>, out.emission)

\* C24 (as stated): chaining through calculate_modified_emission is
\* commutative for two one-shot VALUE modifications, and the two orders give
\* different results for a VALUE modification paired with an EF one.
C24_ValueEFOrderMatters ==
    Chained =>
        /\ OneShotPair({"VALUE"}) => out.result = Swapped
        /\ OneShotPair({"VALUE", "EF"}) => out.result # Swapped

\* C24 (amended): chaining through calculate_modified_emission is
\* commutative for two one-shot VALUE modifications and for a VALUE
\* modification paired with an EF one: both orders give
\* emission * v * e / emission_factor.
C24_ChainCommutes ==
    Chained =>
        /\ OneShotPair({"VALUE"}) => out.result = Swapped
        /\ OneShotPair({"VALUE", "EF"}) =>
               /\ out.status = "ok"
               /\ out.result = Swapped
               /\ \E v \in ModIds, e \in ModIds :
                      /\ mods[v].modification_type = "VALUE"
                      /\ mods[e].modification_type = "EF"
                      /\ out.result =
                             DecDiv(DecMul(DecMul(out.emission, mods[v].value),
                                           mods[e].value),
                                    Dec(sources[1].emission_factor))

C24_Witness ==
    /\ Chained
    /\ OneShotPair({"VALUE", "EF"})
    /\ mods[1].value # mods[2].value
    /\ sources[1].emission_factor # 1
    /\ out.status = "ok"
    /\ out.result # out.emission

(***************************************************************************)
(* Properties of attaching and detaching strategies.                       *)
(***************************************************************************)
\* C28: attaching or detaching a reduction strategy never changes the
\* report's stored cached total, also when a Source mutation recomputed it
\* while the request held its Report object: the stored cache then still
\* equals total_emissions(report) recomputed fresh.
C28_AttachLeavesCache ==
    out.op \in {"add_strategy", "remove_strategy"} =>
        /\ cache[out.report] = out.cache_before
        /\ out.cache_before # None => cache[out.report] = FreshTotal(out.report)

====
